---- MODULE Spec2Model ----
(***************************************************************************)
(* Channel-manipulation engine of cmplayer (videorendereritem.cpp):        *)
(* ChannelManipulation (per layout pair: destination speaker -> ordered    *)
(* source speakers), ChannelLayoutMap (the matrix of manipulations), the   *)
(* default derivation ChannelLayoutMap::default_() and both text formats.  *)
(*                                                                         *)
(* A layout bitmask is modelled as the set of its speakers: the bit of     *)
(* SpeakerId::X is set in a layout iff X is a member of the set, so        *)
(* (speaker & layout) is membership and (layout & (a | b)) is a non-empty  *)
(* intersection with {a, b}.  A QString is a sequence of symbols.          *)
(***************************************************************************)
EXTENDS Integers, Sequences, FiniteSets, TLC

(***************************************************************************)
(* mp_speaker_id: the index into ChNames is the speaker id (nameToId       *)
(* returns (mp_speaker_id)i).                                              *)
(***************************************************************************)
FrontLeft == 0
FrontRight == 1
FrontCenter == 2
LowFrequency == 3
BackLeft == 4
BackRight == 5
FrontLeftCenter == 6
FrontRightCenter == 7
BackCenter == 8
SideLeft == 9
SideRight == 10

MP_SPEAKER_ID_FL == FrontLeft
MP_SPEAKER_ID_FR == FrontRight
MP_SPEAKER_ID_FC == FrontCenter
MP_SPEAKER_ID_SR == SideRight
MP_SPEAKER_ID_NONE == 0 - 1

ChNames ==
  << <<"F","L">>, <<"F","R">>, <<"F","C">>, <<"L","F","E">>,
     <<"B","L">>, <<"B","R">>, <<"F","L","C">>, <<"F","R","C">>,
     <<"B","C">>, <<"S","L">>, <<"S","R">> >>

ChNamesSize == Len(ChNames)

\* The canonical speakers FL..SR.
Speakers == MP_SPEAKER_ID_FL .. MP_SPEAKER_ID_SR

(***************************************************************************)
(* Bounds of the model.                                                    *)
(***************************************************************************)
\* m_mix has one slot per mp_speaker_id; the slots past SR are the
\* non-canonical speakers (top center, ...), of which ExtraSlots are kept.
ExtraSlots == 1
\* set() calls / text inputs explored on one ChannelManipulation
MaxOps == 2
\* comma-separated groups of an input text
MaxGroups == 3
\* layouts of the registry (after Default) the matrix model is built over
MapLayouts == 3
\* operator()/set() edits explored on one ChannelLayoutMap
MaxEdits == 2
\* speakers of a raw mp_chmap
MaxChannels == 2
\* operator()(mp_chmap, mp_chmap) calls explored on one ChannelLayoutMap
MaxResolves == 1

Slots == MP_SPEAKER_ID_FL .. (MP_SPEAKER_ID_SR + ExtraSlots)

(***************************************************************************)
(* ChannelLayoutInfo::items(): the layout registry (enums.hpp).  Each item *)
(* has the enum value (the speaker mask) and the name used in the matrix   *)
(* text.  Default is the sentinel with no speakers.                        *)
(***************************************************************************)
Item(n, v) == [name |-> <<n>>, value |-> v]

Default == {}
Mono == {FrontCenter}
Stereo == {FrontLeft, FrontRight}
Surround == Stereo \cup {FrontCenter}
Back == {BackLeft, BackRight}
Side == {SideLeft, SideRight}
Wide == {FrontLeftCenter, FrontRightCenter}

items ==
  << Item("Default", Default),
     Item("Mono", Mono),
     Item("_2_0", Stereo),
     Item("_2_1", Stereo \cup {LowFrequency}),
     Item("_3_0", Surround),
     Item("_3_0_back", Stereo \cup {BackCenter}),
     Item("_3_1", Surround \cup {LowFrequency}),
     Item("_4_0", Surround \cup {BackCenter}),
     Item("_4_0_quad", Stereo \cup Back),
     Item("_4_0_side", Stereo \cup Side),
     Item("_4_1", Surround \cup {LowFrequency, BackCenter}),
     Item("_5_0", Surround \cup Back),
     Item("_5_0_side", Surround \cup Side),
     Item("_5_1", Surround \cup {LowFrequency} \cup Back),
     Item("_5_1_side", Surround \cup {LowFrequency} \cup Side),
     Item("_6_0", Surround \cup {BackCenter} \cup Side),
     Item("_6_0_front", Stereo \cup Wide \cup Side),
     Item("_6_0_hex", Surround \cup Back \cup {BackCenter}),
     Item("_6_1", Surround \cup {LowFrequency, BackCenter} \cup Side),
     Item("_6_1_back", Surround \cup {LowFrequency, BackCenter} \cup Back),
     Item("_6_1_front", Stereo \cup {LowFrequency} \cup Wide \cup Side),
     Item("_7_0", Surround \cup Back \cup Side),
     Item("_7_0_front", Surround \cup Wide \cup Side),
     Item("_7_1", Surround \cup {LowFrequency} \cup Back \cup Side),
     Item("_7_1_wide", Surround \cup {LowFrequency} \cup Back \cup Wide),
     Item("_7_1_wide_side", Surround \cup {LowFrequency} \cup Wide \cup Side) >>

Layouts == {items[k].value : k \in 1..Len(items)}

\* ChannelLayoutInfo::name(layout)
LayoutName(layout) ==
  LET k == CHOOSE j \in 1..Len(items) : items[j].value = layout
  IN  items[k].name

\* ChannelLayoutInfo::from(name): the item of that name, Default when none.
LayoutFrom(name) ==
  IF \E j \in 1..Len(items) : items[j].name = name
  THEN items[CHOOSE j \in 1..Len(items) : items[j].name = name].value
  ELSE Default

(***************************************************************************)
(* ChannelManipulation: m_mix, one source list per speaker slot.           *)
(***************************************************************************)
\* ChannelManipulation(): every source list empty
EmptyMan == [d \in Slots |-> <<>>]

\* ChannelManipulation::sources(dest)
sources(man, dest) == man[dest]

\* ChannelManipulation::set(dest, sources)
set(man, dest, srcs) == [man EXCEPT ![dest] = srcs]

\* mix[dest] << mps
Push(mix, dest, mps) == [mix EXCEPT ![dest] = Append(@, mps)]

(***************************************************************************)
(* speakersInLayout: the speakers of the layout in the order of the CHECK  *)
(* lines, which is ascending speaker id.                                   *)
(***************************************************************************)
\* speakersInLayout with the CHECK(SideRight) line left out
speakersInLayout_NoSideRight(layout) ==
  LET RECURSIVE From(_)
      From(id) ==
        IF id > MP_SPEAKER_ID_SR - 1 THEN <<>>
        ELSE (IF id \in layout THEN <<id>> ELSE <<>>) \o From(id + 1)
  IN  From(MP_SPEAKER_ID_FL)

RECURSIVE SpeakersFrom(_, _)
SpeakersFrom(layout, id) ==
  IF id > MP_SPEAKER_ID_SR THEN <<>>
  ELSE (IF id \in layout THEN <<id>> ELSE <<>>) \o SpeakersFrom(layout, id + 1)

speakersInLayout(layout) == SpeakersFrom(layout, MP_SPEAKER_ID_FL)

(***************************************************************************)
(* ChannelLayoutMap::default_(): the body of the loop over srcSpeakers.    *)
(* Each helper returns the mix it leaves behind; testAndSet/testAndSet2    *)
(* also return their bool.                                                 *)
(***************************************************************************)
\* testAndSet appending without looking at dstLayout
testAndSet_NoTest(mix, mps, dstLayout, id) ==
  [ok |-> TRUE, mix |-> Push(mix, id, mps)]

testAndSet(mix, mps, dstLayout, id) ==
  IF id \in dstLayout
  THEN [ok |-> TRUE, mix |-> Push(mix, id, mps)]
  ELSE [ok |-> FALSE, mix |-> mix]

testAndSet2(mix, mps, dstLayout, left, right) ==
  IF dstLayout \cap {left, right} # {}
  THEN [ok |-> TRUE, mix |-> Push(Push(mix, left, mps), right, mps)]
  ELSE [ok |-> FALSE, mix |-> mix]

setLeft(mix, mps) == Push(mix, MP_SPEAKER_ID_FL, mps)

setRight(mix, mps) == Push(mix, MP_SPEAKER_ID_FR, mps)

setBoth(mix, mps) == setRight(setLeft(mix, mps), mps)

\* case LowFrequency: if (!testAndSet(FC) || !testAndSet(FLC)) setLeft();
\* the second call is made only when the first returned true.
caseLowFrequency(mix, mps, dstLayout) ==
  LET a == testAndSet(mix, mps, dstLayout, FrontCenter)
  IN  IF ~a.ok THEN setLeft(a.mix, mps)
      ELSE LET b == testAndSet(a.mix, mps, dstLayout, FrontLeftCenter)
           IN  IF ~b.ok THEN setLeft(b.mix, mps) ELSE b.mix

\* case FrontCenter going straight to setBoth()
caseFrontCenter_AlwaysFront(mix, mps, dstLayout) == setBoth(mix, mps)

\* case FrontCenter: if (!testAndSet2(FLC, FRC)) setBoth();
caseFrontCenter(mix, mps, dstLayout) ==
  LET a == testAndSet2(mix, mps, dstLayout, FrontLeftCenter, FrontRightCenter)
  IN  IF ~a.ok THEN setBoth(a.mix, mps) ELSE a.mix

\* case BackLeft/BackRight with an unconditional break (no fallthrough)
caseBack_NoFallthrough(mix, mps, dstLayout, first, second, front) ==
  LET a == testAndSet(mix, mps, dstLayout, first)
  IN  IF a.ok THEN a.mix ELSE testAndSet(a.mix, mps, dstLayout, second).mix

\* if (testAndSet(first) || testAndSet(second)) break; else fall through to
\* the next case label, which sets the front speaker of that side.
caseBack(mix, mps, dstLayout, first, second, front) ==
  LET a == testAndSet(mix, mps, dstLayout, first)
  IN  IF a.ok THEN a.mix
      ELSE LET b == testAndSet(a.mix, mps, dstLayout, second)
           IN  IF b.ok THEN b.mix ELSE Push(b.mix, front, mps)

\* case SideRight/SideLeft without the setRight()/setLeft() fallback
caseSide_NoFront(mix, mps, dstLayout, back, front) ==
  testAndSet(mix, mps, dstLayout, back).mix

\* case SideRight / SideLeft: if (!testAndSet(back)) setRight()/setLeft();
caseSide(mix, mps, dstLayout, back, front) ==
  LET a == testAndSet(mix, mps, dstLayout, back)
  IN  IF ~a.ok THEN Push(a.mix, front, mps) ELSE a.mix

\* case BackCenter without the attempt on the side pair
caseBackCenter_NoSide(mix, mps, dstLayout) ==
  LET a == testAndSet2(mix, mps, dstLayout, BackLeft, BackRight)
  IN  IF a.ok THEN a.mix ELSE setBoth(a.mix, mps)

\* case BackCenter: if (!testAndSet2(BL, BR) && !testAndSet2(SL, SR)) setBoth();
caseBackCenter(mix, mps, dstLayout) ==
  LET a == testAndSet2(mix, mps, dstLayout, BackLeft, BackRight)
  IN  IF a.ok THEN a.mix
      ELSE LET b == testAndSet2(a.mix, mps, dstLayout, SideLeft, SideRight)
           IN  IF ~b.ok THEN setBoth(b.mix, mps) ELSE b.mix

\* switch (srcSpeaker); FrontLeft/FrontRight hit Q_ASSERT(false) and record
\* nothing.
fallback(mix, srcSpeaker, dstLayout) ==
  CASE srcSpeaker \in {FrontLeft, FrontRight} -> mix
    [] srcSpeaker = LowFrequency -> caseLowFrequency(mix, srcSpeaker, dstLayout)
    [] srcSpeaker = FrontCenter -> caseFrontCenter(mix, srcSpeaker, dstLayout)
    [] srcSpeaker = BackLeft ->
         caseBack(mix, srcSpeaker, dstLayout, BackCenter, SideLeft, MP_SPEAKER_ID_FL)
    [] srcSpeaker = FrontLeftCenter -> setLeft(mix, srcSpeaker)
    [] srcSpeaker = BackRight ->
         caseBack(mix, srcSpeaker, dstLayout, BackCenter, SideRight, MP_SPEAKER_ID_FR)
    [] srcSpeaker = FrontRightCenter -> setRight(mix, srcSpeaker)
    [] srcSpeaker = SideRight ->
         caseSide(mix, srcSpeaker, dstLayout, BackRight, MP_SPEAKER_ID_FR)
    [] srcSpeaker = SideLeft ->
         caseSide(mix, srcSpeaker, dstLayout, BackLeft, MP_SPEAKER_ID_FL)
    [] srcSpeaker = BackCenter -> caseBackCenter(mix, srcSpeaker, dstLayout)

\* Does this source speaker reach the Q_ASSERT(false) of the switch?
reachesAssert(srcSpeaker, dstLayout) ==
  /\ srcSpeaker \notin dstLayout
  /\ dstLayout # Mono
  /\ srcSpeaker \in {FrontLeft, FrontRight}

\* the loop body without the `dstLayout == ChannelLayout::Mono` branch
mixStep_NoMono(mix, srcSpeaker, dstLayout) ==
  IF srcSpeaker \in dstLayout THEN Push(mix, srcSpeaker, srcSpeaker)
  ELSE fallback(mix, srcSpeaker, dstLayout)

\* the loop body without the direct pass-through branch
mixStep_NoPassThrough(mix, srcSpeaker, dstLayout) ==
  IF dstLayout = Mono THEN Push(mix, MP_SPEAKER_ID_FC, srcSpeaker)
  ELSE fallback(mix, srcSpeaker, dstLayout)

\* One iteration of `for (auto srcSpeaker : srcSpeakers)`.
mixStep(mix, srcSpeaker, dstLayout) ==
  IF srcSpeaker \in dstLayout THEN Push(mix, srcSpeaker, srcSpeaker)
  ELSE IF dstLayout = Mono THEN Push(mix, MP_SPEAKER_ID_FC, srcSpeaker)
  ELSE fallback(mix, srcSpeaker, dstLayout)

\* The whole loop over srcSpeakers for one (srcLayout, dstLayout).
RECURSIVE mixLoop(_, _, _, _)
mixLoop(mix, srcSpeakers, k, dstLayout) ==
  IF k > Len(srcSpeakers) THEN mix
  ELSE mixLoop(mixStep(mix, srcSpeakers[k], dstLayout), srcSpeakers, k + 1, dstLayout)

defaultMix(src, dst) == mixLoop(EmptyMan, speakersInLayout(src), 1, dst)

(***************************************************************************)
(* QString / QStringList.                                                  *)
(***************************************************************************)
\* QStringList::join(sep)
RECURSIVE Join(_, _)
Join(list, sep) ==
  IF list = <<>> THEN <<>>
  ELSE IF Len(list) = 1 THEN list[1]
  ELSE list[1] \o <<sep>> \o Join(Tail(list), sep)

\* QString::split(sep): the parts between separators, empty parts kept, so
\* the empty string gives one empty part.
RECURSIVE Split(_, _)
Split(text, sep) ==
  IF \A k \in 1..Len(text) : text[k] # sep THEN <<text>>
  ELSE LET k == CHOOSE j \in 1..Len(text) :
                  text[j] = sep /\ \A h \in 1..(j - 1) : text[h] # sep
       IN  <<SubSeq(text, 1, k - 1)>> \o Split(SubSeq(text, k + 1, Len(text)), sep)

NonEmptyPart(part) == part # <<>>

\* QString::split(sep, QString::SkipEmptyParts)
SplitSkipEmptyParts(text, sep) == SelectSeq(Split(text, sep), NonEmptyPart)

(***************************************************************************)
(* ChannelManipulation::toString                                           *)
(***************************************************************************)
\* _L(ChNames[id].abbr)
abbr(id) == ChNames[id + 1]

\* srcs filled from the back of the source list
srcAbbrs_Reversed(srcs, k) ==
  [j \in 1..(Len(srcs) - k + 1) |-> abbr(srcs[Len(srcs) - j + 1])]

\* srcs: the abbreviations of one source list, in stored order
RECURSIVE srcAbbrs(_, _)
srcAbbrs(srcs, k) ==
  IF k > Len(srcs) THEN <<>>
  ELSE <<abbr(srcs[k])>> \o srcAbbrs(srcs, k + 1)

\* the loop over m_mix: one "DEST!SRC/SRC" entry per non-empty slot in FL..SR
RECURSIVE toStringList(_, _)
toStringList(m_mix, i) ==
  IF i \notin DOMAIN m_mix THEN <<>>
  ELSE (IF MP_SPEAKER_ID_FL <= i /\ i <= MP_SPEAKER_ID_SR /\ m_mix[i] # <<>>
        THEN << abbr(i) \o <<"!">> \o Join(srcAbbrs(m_mix[i], 1), "/") >>
        ELSE <<>>)
       \o toStringList(m_mix, i + 1)

\* toString with the groups joined by '/' as well
ChannelManipulation_toString_SlashJoin(m_mix) == Join(toStringList(m_mix, 0), "/")

ChannelManipulation_toString(m_mix) == Join(toStringList(m_mix, 0), ",")

(***************************************************************************)
(* ChannelManipulation::fromString                                         *)
(***************************************************************************)
nameToId(name) ==
  IF \E i \in 0..(ChNamesSize - 1) : name = ChNames[i + 1]
  THEN CHOOSE i \in 0..(ChNamesSize - 1) :
         name = ChNames[i + 1] /\ \A j \in 0..(i - 1) : name # ChNames[j + 1]
  ELSE MP_SPEAKER_ID_NONE

\* the loop over srcs giving up the whole list at an unknown name
parseSources_NoneOnUnknown(srcs, i) ==
  IF \E k \in i..Len(srcs) : nameToId(srcs[k]) = MP_SPEAKER_ID_NONE THEN <<>>
  ELSE [k \in 1..(Len(srcs) - i + 1) |-> nameToId(srcs[k + i - 1])]

\* the loop over srcs: the known names are appended, the others left out
RECURSIVE parseSources(_, _)
parseSources(srcs, i) ==
  IF i > Len(srcs) THEN <<>>
  ELSE LET src == nameToId(srcs[i])
       IN  (IF src # MP_SPEAKER_ID_NONE THEN <<src>> ELSE <<>>)
           \o parseSources(srcs, i + 1)

\* the body of `for (auto &one : list)`
parseGroup(man, one) ==
  LET map == SplitSkipEmptyParts(one, "!")
  IN  IF Len(map) # 2 THEN man
      ELSE LET dest == nameToId(map[1])
           IN  IF dest = MP_SPEAKER_ID_NONE THEN man
               ELSE LET srcs == parseSources(SplitSkipEmptyParts(map[2], "/"), 1)
                    IN  IF srcs # <<>> THEN set(man, dest, srcs) ELSE man

RECURSIVE parseGroups(_, _, _)
parseGroups(man, list, k) ==
  IF k > Len(list) THEN man
  ELSE parseGroups(parseGroup(man, list[k]), list, k + 1)

\* fromString returning at the first group it cannot use
ChannelManipulation_fromString_StopAtBad(text) ==
  LET list == Split(text, ",")
      RECURSIVE Rest(_, _)
      Rest(man, k) ==
        IF k > Len(list) THEN man
        ELSE LET next == parseGroup(man, list[k])
             IN  IF next = man THEN man ELSE Rest(next, k + 1)
  IN  Rest(EmptyMan, 1)

ChannelManipulation_fromString(text) == parseGroups(EmptyMan, Split(text, ","), 1)

(***************************************************************************)
(* ChannelLayoutMap: m_map, keyed by <<source layout, destination layout>>.*)
(***************************************************************************)
\* ChannelLayoutMap(): no entry
EmptyMap == [key \in {} |-> EmptyMan]

\* operator()(src, dst): the entry of the pair, default-constructed when the
\* map has none.
access(map, src, dst) ==
  [key \in DOMAIN map \cup {<<src, dst>>} |->
     IF key \in DOMAIN map THEN map[key] ELSE EmptyMan]

\* map(src, dst) = man
assign(map, src, dst, man) ==
  [key \in DOMAIN map \cup {<<src, dst>>} |->
     IF key = <<src, dst>> THEN man ELSE map[key]]

\* (int)layout: the bitmask of the layout
RECURSIVE LayoutValue(_)
LayoutValue(layout) ==
  IF layout = {} THEN 0
  ELSE LET id == CHOOSE x \in layout : TRUE
       IN  2 ^ id + LayoutValue(layout \ {id})

\* the order in which m_map is iterated: by source value, then by
\* destination value
KeyBefore(j, k) ==
  \/ LayoutValue(j[1]) < LayoutValue(k[1])
  \/ j[1] = k[1] /\ LayoutValue(j[2]) < LayoutValue(k[2])

RECURSIVE KeysInOrder(_)
KeysInOrder(keys) ==
  IF keys = {} THEN <<>>
  ELSE LET first == CHOOSE k \in keys : \A j \in keys \ {k} : KeyBefore(k, j)
       IN  <<first>> \o KeysInOrder(keys \ {first})

\* the registry the matrix model builds default_() over: the first
\* MapLayouts layouts after Default
MapItems == {items[k].value : k \in 2..(MapLayouts + 1)}

\* default_(): an entry for every pair of non-Default layouts
default_ == [key \in MapItems \X MapItems |-> defaultMix(key[1], key[2])]

\* one record "SRCNAME:DSTNAME:MANIPULATION"
record(map, key) ==
  LayoutName(key[1]) \o <<":">> \o LayoutName(key[2]) \o <<":">>
    \o ChannelManipulation_toString(map[key])

RECURSIVE records(_, _, _)
records(map, keys, k) ==
  IF k > Len(keys) THEN <<>>
  ELSE <<record(map, keys[k])>> \o records(map, keys, k + 1)

ChannelLayoutMap_toString(map) ==
  Join(records(map, KeysInOrder(DOMAIN map), 1), "#")

\* the record stored under (dst, src) instead of (src, dst)
parseRecord_Swapped(map, one) ==
  LET parts == SplitSkipEmptyParts(one, ":")
  IN  IF Len(parts) # 3 THEN map
      ELSE assign(map, LayoutFrom(parts[2]), LayoutFrom(parts[1]),
                  ChannelManipulation_fromString(parts[3]))

\* the body of `for (auto &one : list)` of ChannelLayoutMap::fromString
parseRecord(map, one) ==
  LET parts == SplitSkipEmptyParts(one, ":")
  IN  IF Len(parts) # 3 THEN map
      ELSE assign(map, LayoutFrom(parts[1]), LayoutFrom(parts[2]),
                  ChannelManipulation_fromString(parts[3]))

RECURSIVE parseRecords(_, _, _)
parseRecords(map, list, k) ==
  IF k > Len(list) THEN map
  ELSE parseRecords(parseRecord(map, list[k]), list, k + 1)

ChannelLayoutMap_fromString(text) ==
  parseRecords(EmptyMap, SplitSkipEmptyParts(text, "#"), 1)

(***************************************************************************)
(* ChannelLayoutMap::operator()(const mp_chmap &src, const mp_chmap &dest) *)
(* An mp_chmap is the sequence speaker[0..num-1] of raw speaker ids.       *)
(***************************************************************************)
\* toSpeakerId: the SpeakerId of the catalog item whose data is the raw id,
\* FrontLeft when there is none ("Cannot convert mp_chmap!!")
toSpeakerId(mp) == IF mp \in Speakers THEN mp ELSE FrontLeft

\* layout = toSpeakerId(...) in place of layout |= toSpeakerId(...)
orSpeakers_Assign(chmap, i, layout) ==
  IF i > Len(chmap) THEN layout ELSE {toSpeakerId(chmap[Len(chmap)])}

\* for (i < chmap.num) layout |= toSpeakerId(chmap.speaker[i])
RECURSIVE orSpeakers(_, _, _)
orSpeakers(chmap, i, layout) ==
  IF i > Len(chmap) THEN layout
  ELSE orSpeakers(chmap, i + 1, layout \cup {toSpeakerId(chmap[i])})

\* ChannelLayoutInfo::from(int): the layout of that value, Default when the
\* registry has none
LayoutFromValue(layout) == IF layout \in Layouts THEN layout ELSE Default

toLayout(chmap) == LayoutFromValue(orSpeakers(chmap, 1, {}))

(***************************************************************************)
(* Inputs explored.                                                        *)
(***************************************************************************)
\* set(): destinations (one of them outside FL..SR) and source lists
SetDests == {FrontLeft, FrontCenter, SideRight, MP_SPEAKER_ID_SR + ExtraSlots}

SetSources ==
  { <<>>, <<FrontRight>>, <<FrontLeft, FrontLeft>>,
    <<SideRight, LowFrequency, FrontLeftCenter>> }

\* groups of an input text: usable ones (one with an empty '!' part, which
\* SkipEmptyParts does not count), and ones with a wrong '!' field count,
\* an unknown destination, or no known source
Groups ==
  { <<"F","C","!","F","L">>,
    <<"F","C","!","F","L","/","F","R">>,
    <<"F","R","!","!","F","L">>,
    <<"F","C","!","F","R","/","X","X">>,
    <<"S","R","!","L","F","E","/","F","L","C">>,
    <<"F","L","!","X","X">>,
    <<"X","X","!","F","L">>,
    <<"F","L">>,
    <<"F","L","!","F","R","!","F","C">> }

InputTexts ==
  { Join(gs, ",") : gs \in UNION {[1..n -> Groups] : n \in 1..MaxGroups} }

\* operator()/set() on the matrix: layout pairs, destinations, source lists
EditPairs == { <<Default, Mono>>, <<Mono, Stereo>>, <<Stereo, Mono>> }

EditDests == {FrontLeft, FrontCenter}

EditSources == { <<>>, <<FrontRight>>, <<FrontCenter, FrontLeft>> }

\* operator()(mp_chmap, mp_chmap): raw speaker ids (one of them without a
\* catalog entry) and the arrays made of them
RawIds == {FrontRight, FrontCenter, MP_SPEAKER_ID_SR + 1}

ChMaps == UNION {[1..n -> RawIds] : n \in 0..MaxChannels}

(***************************************************************************)
(* State.                                                                  *)
(***************************************************************************)
VARIABLES
  pc,          \* position of the operation in progress
  srcLayout,   \* default_(): layout of the outer loop
  dstLayout,   \* default_(): layout of the inner loop
  srcSpeakers, \* default_(): speakersInLayout(srcLayout)
  idx,         \* default_(): position in srcSpeakers (1-based)
  mix,         \* default_(): map(srcLayout, dstLayout).m_mix
  asserted,    \* default_(): Q_ASSERT(false) was reached
  man,         \* a ChannelManipulation (its m_mix)
  text,        \* a serialized manipulation or matrix
  parsed,      \* the ChannelManipulation returned by fromString
  ops,         \* set() calls made on man
  m_map,       \* a ChannelLayoutMap (its m_map)
  loaded,      \* the ChannelLayoutMap returned by fromString
  edits,       \* operator()/set() edits made on m_map
  chSrc,       \* operator()(mp_chmap, mp_chmap): the src argument
  chDest,      \* operator()(mp_chmap, mp_chmap): the dest argument
  resolved     \* operator()(mp_chmap, mp_chmap): key of the entry returned

defaultVars == <<srcLayout, dstLayout, srcSpeakers, idx, mix, asserted>>
manVars == <<man, parsed, ops>>
mapVars == <<m_map, loaded, edits>>
resolveVars == <<chSrc, chDest, resolved>>
vars == <<pc, text, defaultVars, manVars, mapVars, resolveVars>>

DefaultIdle ==
  /\ srcLayout = Default
  /\ dstLayout = Default
  /\ srcSpeakers = <<>>
  /\ idx = 1
  /\ mix = EmptyMan
  /\ asserted = FALSE

ManIdle == man = EmptyMan /\ parsed = EmptyMan /\ ops = 0

MapIdle == m_map = EmptyMap /\ loaded = EmptyMap /\ edits = 0

ResolveIdle == chSrc = <<>> /\ chDest = <<>> /\ resolved = <<Default, Default>>

(***************************************************************************)
(* Spec: default_() on one pair of registry layouts.  The entries of       *)
(* different pairs do not share state, so the pair is the input.           *)
(***************************************************************************)
DefaultInit ==
  /\ srcLayout \in Layouts \ {Default}
  /\ dstLayout \in Layouts \ {Default}
  /\ srcSpeakers = speakersInLayout(srcLayout)
  /\ idx = 1
  /\ mix = EmptyMan
  /\ asserted = FALSE
  /\ pc = "loop"
  /\ text = <<>>
  /\ ManIdle
  /\ MapIdle
  /\ ResolveIdle

DefaultStep ==
  /\ pc = "loop"
  /\ idx <= Len(srcSpeakers)
  /\ mix' = mixStep(mix, srcSpeakers[idx], dstLayout)
  /\ asserted' = (asserted \/ reachesAssert(srcSpeakers[idx], dstLayout))
  /\ idx' = idx + 1
  /\ pc' = IF idx = Len(srcSpeakers) THEN "done" ELSE "loop"
  /\ UNCHANGED <<srcLayout, dstLayout, srcSpeakers, text, manVars, mapVars, resolveVars>>

Init == DefaultInit

Next == DefaultStep

Spec == Init /\ [][Next]_vars

(***************************************************************************)
(* SpecText: one ChannelManipulation, edited by set(), written by          *)
(* toString() and read back by fromString(); or a text given from outside  *)
(* (a saved setting) and read by fromString().                             *)
(***************************************************************************)
TextInit ==
  /\ DefaultIdle
  /\ MapIdle
  /\ ManIdle
  /\ ResolveIdle
  /\ \/ pc = "edit" /\ text = <<>>
     \/ pc = "text" /\ text \in InputTexts

\* man.set(dest, srcs)
ManSet(dest, srcs) ==
  /\ pc = "edit"
  /\ ops < MaxOps
  /\ man' = set(man, dest, srcs)
  /\ ops' = ops + 1
  /\ UNCHANGED <<pc, text, parsed, defaultVars, mapVars, resolveVars>>

\* text = man.toString()
ManToString ==
  /\ pc = "edit"
  /\ text' = ChannelManipulation_toString(man)
  /\ pc' = "text"
  /\ UNCHANGED <<manVars, defaultVars, mapVars, resolveVars>>

\* parsed = ChannelManipulation::fromString(text)
ManFromString ==
  /\ pc = "text"
  /\ parsed' = ChannelManipulation_fromString(text)
  /\ pc' = "parsed"
  /\ UNCHANGED <<text, man, ops, defaultVars, mapVars, resolveVars>>

\* man = parsed: the caller keeps the manipulation that was read
ManAssign ==
  /\ pc = "parsed"
  /\ man' = parsed
  /\ parsed' = EmptyMan
  /\ text' = <<>>
  /\ pc' = "edit"
  /\ UNCHANGED <<ops, defaultVars, mapVars, resolveVars>>

TextNext ==
  \/ \E dest \in SetDests, srcs \in SetSources : ManSet(dest, srcs)
  \/ ManToString
  \/ ManFromString
  \/ ManAssign

SpecText == TextInit /\ [][TextNext]_vars

(***************************************************************************)
(* SpecMap: one ChannelLayoutMap, built by default_(), edited through      *)
(* operator()(src, dst) and set(), written by toString() and read back by  *)
(* fromString().                                                           *)
(***************************************************************************)
MapInit ==
  /\ DefaultIdle
  /\ ManIdle
  /\ MapIdle
  /\ ResolveIdle
  /\ text = <<>>
  /\ pc = "map"

\* map = ChannelLayoutMap::default_()
MapDefault ==
  /\ pc = "map"
  /\ edits = 0
  /\ m_map' = default_
  /\ UNCHANGED <<pc, text, loaded, edits, defaultVars, manVars, resolveVars>>

\* map(src, dst)
MapAccess(src, dst) ==
  /\ pc = "map"
  /\ edits < MaxEdits
  /\ m_map' = access(m_map, src, dst)
  /\ edits' = edits + 1
  /\ UNCHANGED <<pc, text, loaded, defaultVars, manVars, resolveVars>>

\* map(src, dst).set(dest, srcs)
MapSet(src, dst, dest, srcs) ==
  /\ pc = "map"
  /\ edits < MaxEdits
  /\ m_map' = assign(m_map, src, dst, set(access(m_map, src, dst)[<<src, dst>>], dest, srcs))
  /\ edits' = edits + 1
  /\ UNCHANGED <<pc, text, loaded, defaultVars, manVars, resolveVars>>

\* text = map.toString()
MapToString ==
  /\ pc = "map"
  /\ text' = ChannelLayoutMap_toString(m_map)
  /\ pc' = "saved"
  /\ UNCHANGED <<mapVars, defaultVars, manVars, resolveVars>>

\* loaded = ChannelLayoutMap::fromString(text)
MapFromString ==
  /\ pc = "saved"
  /\ loaded' = ChannelLayoutMap_fromString(text)
  /\ pc' = "loaded"
  /\ UNCHANGED <<text, m_map, edits, defaultVars, manVars, resolveVars>>

\* setMap(loaded): the loaded matrix becomes the current one
MapSetMap ==
  /\ pc = "loaded"
  /\ m_map' = loaded
  /\ loaded' = EmptyMap
  /\ text' = <<>>
  /\ pc' = "map"
  /\ UNCHANGED <<edits, defaultVars, manVars, resolveVars>>

MapNext ==
  \/ MapDefault
  \/ \E key \in EditPairs : MapAccess(key[1], key[2])
  \/ \E key \in EditPairs, dest \in EditDests, srcs \in EditSources :
       MapSet(key[1], key[2], dest, srcs)
  \/ MapToString
  \/ MapFromString
  \/ MapSetMap

SpecMap == MapInit /\ [][MapNext]_vars

(***************************************************************************)
(* SpecResolve: operator()(mp_chmap, mp_chmap) on a ChannelLayoutMap that  *)
(* is empty or the default one.                                            *)
(***************************************************************************)
ResolveInit ==
  /\ DefaultIdle
  /\ ManIdle
  /\ ResolveIdle
  /\ text = <<>>
  /\ loaded = EmptyMap
  /\ edits = 0
  /\ m_map \in {EmptyMap, default_}
  /\ pc = "map"

\* map(src, dest) with raw channel maps
Resolve(src, dest) ==
  /\ pc = "map"
  /\ edits < MaxResolves
  /\ chSrc' = src
  /\ chDest' = dest
  /\ resolved' = <<toLayout(src), toLayout(dest)>>
  /\ m_map' = access(m_map, toLayout(src), toLayout(dest))
  /\ edits' = edits + 1
  /\ pc' = "resolved"
  /\ UNCHANGED <<text, loaded, defaultVars, manVars>>

\* the caller is done with the entry; the arguments go out of scope
ResolveReturn ==
  /\ pc = "resolved"
  /\ chSrc' = <<>>
  /\ chDest' = <<>>
  /\ resolved' = <<Default, Default>>
  /\ pc' = "map"
  /\ UNCHANGED <<text, defaultVars, manVars, mapVars>>

ResolveNext ==
  \/ \E src \in ChMaps, dest \in ChMaps : Resolve(src, dest)
  \/ ResolveReturn

SpecResolve == ResolveInit /\ [][ResolveNext]_vars

(***************************************************************************)
(* Properties of default_().                                               *)
(***************************************************************************)
\* the speakers listed as sources of destination d
Range(seq) == {seq[k] : k \in 1..Len(seq)}

\* the destinations the source speaker s feeds in the entry being built
DestsOf(s) == {d \in Slots : s \in Range(mix[d])}

DefaultDone == pc = "done"

\* C1 (as claimed): in default_()(S, D) every speaker present in D has a
\* non-empty source list.
C1_CoverageOfDestination ==
  DefaultDone => \A d \in dstLayout : mix[d] # <<>>

\* C1 (amended): in default_()(S, D) every speaker present in both S and D
\* has a non-empty source list; a speaker of D that S lacks may stay empty.
C1_CoverageOfSharedSpeakers ==
  DefaultDone => \A d \in dstLayout \cap srcLayout : mix[d] # <<>>

C1_Witness ==
  /\ DefaultDone
  /\ dstLayout \ srcLayout # {}
  /\ dstLayout \cap srcLayout # {}
  /\ \E d \in dstLayout : mix[d] = <<>>

\* C2: with LowFrequency in S, LowFrequency not in D and D # Mono,
\* LowFrequency feeds exactly one destination: FrontCenter if it is in D,
\* else FrontLeftCenter if it is in D, else FrontLeft.
C2_LowFrequencyTarget ==
  IF FrontCenter \in dstLayout THEN FrontCenter
  ELSE IF FrontLeftCenter \in dstLayout THEN FrontLeftCenter
  ELSE FrontLeft

C2_LowFrequencyFallback ==
  (/\ DefaultDone
   /\ LowFrequency \in srcLayout
   /\ LowFrequency \notin dstLayout
   /\ dstLayout # Mono)
  => DestsOf(LowFrequency) = {C2_LowFrequencyTarget}

C4_BackLeftToFrontLeft ==
  (/\ DefaultDone
   /\ BackLeft \in srcLayout
   /\ BackCenter \notin dstLayout
   /\ SideLeft \notin dstLayout)
  => BackLeft \in Range(mix[FrontLeft])

\* C4 (amended): with BackLeft in S, none of BackLeft, BackCenter, SideLeft
\* in D and D # Mono, BackLeft is a source of FrontLeft.
C4_BackLeftFallthrough ==
  (/\ DefaultDone
   /\ BackLeft \in srcLayout
   /\ dstLayout \cap {BackLeft, BackCenter, SideLeft} = {}
   /\ dstLayout # Mono)
  => BackLeft \in Range(mix[FrontLeft])

C4_Witness ==
  /\ DefaultDone
  /\ BackLeft \in srcLayout
  /\ dstLayout \cap {BackLeft, BackCenter, SideLeft} = {}
  /\ dstLayout # Mono
  /\ BackLeft \in Range(mix[FrontLeft])

\* C5: every speaker of S is a source of at least one destination of
\* default_()(S, D), and the Q_ASSERT(false) branch is never reached.
C5_NoFailurePath ==
  /\ ~asserted
  /\ DefaultDone => \A s \in srcLayout : DestsOf(s) # {}

C5_Witness ==
  /\ DefaultDone
  /\ dstLayout # Mono
  /\ Cardinality(srcLayout \ dstLayout) >= 3
  /\ \A s \in srcLayout : DestsOf(s) # {}

\* C8: in default_()(S, S) each speaker of S has exactly itself as source
\* list and every other destination has an empty source list.
C8_PassThroughIdentity ==
  (DefaultDone /\ srcLayout = dstLayout)
  => \A d \in Slots : mix[d] = IF d \in srcLayout THEN <<d>> ELSE <<>>

C8_Witness ==
  /\ DefaultDone
  /\ srcLayout = dstLayout
  /\ Cardinality(srcLayout) >= 6
  /\ mix[SideRight] = <<SideRight>>

\* C9: in default_()(S, Mono) every speaker of S is a source of FrontCenter
\* and no other destination has a source.
C9_MonoCollapse ==
  (DefaultDone /\ dstLayout = Mono)
  => /\ \A s \in srcLayout : s \in Range(mix[MP_SPEAKER_ID_FC])
     /\ \A d \in Slots \ {MP_SPEAKER_ID_FC} : mix[d] = <<>>

C9_Witness ==
  /\ DefaultDone
  /\ dstLayout = Mono
  /\ FrontCenter \in srcLayout
  /\ Len(mix[MP_SPEAKER_ID_FC]) >= 6

(***************************************************************************)
(* Properties of the text formats.                                         *)
(***************************************************************************)
\* every destination with sources, and every source, is within FL..SR
Canonical(m_mix) ==
  \A d \in DOMAIN m_mix :
    m_mix[d] # <<>> => d \in Speakers /\ Range(m_mix[d]) \subseteq Speakers

\* C7: for every ChannelManipulation m with destinations and sources within
\* FL..SR, fromString(toString(m)) equals m: every destination has the same
\* ordered source list.
C7_ManipulationRoundTrip ==
  (/\ pc = "parsed"
   /\ text = ChannelManipulation_toString(man)
   /\ Canonical(man))
  => parsed = man

C7_Witness ==
  /\ pc = "parsed"
  /\ text = ChannelManipulation_toString(man)
  /\ man[FrontLeft] = <<FrontLeft, FrontLeft>>
  /\ man[SideRight] = <<SideRight, LowFrequency, FrontLeftCenter>>
  /\ Canonical(man)
  /\ parsed = man

\* a group fromString cannot use: wrong '!' field count, unknown destination
\* abbreviation, or no known source abbreviation
BadGroup(group) ==
  LET map == SplitSkipEmptyParts(group, "!")
  IN  \/ Len(map) # 2
      \/ nameToId(map[1]) = MP_SPEAKER_ID_NONE
      \/ LET srcs == SplitSkipEmptyParts(map[2], "/")
         IN  \A i \in 1..Len(srcs) : nameToId(srcs[i]) = MP_SPEAKER_ID_NONE

RemoveAt(list, i) == SubSeq(list, 1, i - 1) \o SubSeq(list, i + 1, Len(list))

\* C10: a group with a wrong '!' field count, an unknown destination or no
\* known source contributes no entry, and the result of the parse is the
\* same as for the text without that group.
C10_LenientParse ==
  pc = "parsed" =>
    LET list == Split(text, ",")
    IN  \A i \in 1..Len(list) :
          BadGroup(list[i]) =>
            /\ ChannelManipulation_fromString(list[i]) = EmptyMan
            /\ parsed = ChannelManipulation_fromString(Join(RemoveAt(list, i), ","))

\* "FL!XX,FC!FL" yields only FC <- [FL]
C10_Witness ==
  /\ pc = "parsed"
  /\ text = <<"F","L","!","X","X",",","F","C","!","F","L">>
  /\ parsed = set(EmptyMan, FrontCenter, <<FrontLeft>>)

\* the keys of the matrix whose manipulation has a non-empty source list
NonEmptyKeys(map) == {key \in DOMAIN map : map[key] # EmptyMan}

\* C6 (as claimed): fromString(toString(M)) has exactly the keys of M and an
\* equal ChannelManipulation under each key.
C6_MatrixRoundTrip ==
  pc = "loaded" => loaded = m_map

\* C6 (amended): fromString(toString(M)) has exactly the keys of M whose
\* manipulation has a non-empty source list, with an equal
\* ChannelManipulation under each; the other keys of M are absent from it.
C6_MatrixRoundTripNonEmpty ==
  pc = "loaded" => loaded = [key \in NonEmptyKeys(m_map) |-> m_map[key]]

C6_Witness ==
  /\ pc = "loaded"
  /\ DOMAIN m_map \ NonEmptyKeys(m_map) # {}
  /\ Cardinality(NonEmptyKeys(m_map)) >= MapLayouts * MapLayouts
  /\ DOMAIN loaded = NonEmptyKeys(m_map)
  /\ \A key \in DOMAIN loaded : loaded[key] = m_map[key]

\* the '/' parts of the source field of a two-field group
SourceNames(group) ==
  SplitSkipEmptyParts(SplitSkipEmptyParts(group, "!")[2], "/")

KnownName(name) == nameToId(name) # MP_SPEAKER_ID_NONE

\* a well-formed group DEST!SRC/... with a known destination and both known
\* and unknown source abbreviations
MixedGroup(group) ==
  /\ Len(SplitSkipEmptyParts(group, "!")) = 2
  /\ KnownName(SplitSkipEmptyParts(group, "!")[1])
  /\ \E k \in 1..Len(SourceNames(group)) : KnownName(SourceNames(group)[k])
  /\ \E k \in 1..Len(SourceNames(group)) : ~KnownName(SourceNames(group)[k])

GroupDest(group) == nameToId(SplitSkipEmptyParts(group, "!")[1])

\* the ids of the known source abbreviations of the group, in their order
KnownSourceIds(group) ==
  LET names == SelectSeq(SourceNames(group), KnownName)
  IN  [k \in 1..Len(names) |-> nameToId(names[k])]

\* C11 (as claimed): a well-formed group with a known destination and an
\* unknown source abbreviation next to known ones is dropped whole: the
\* result of the parse is that of the text without the group.
C11_MixedGroupDropped ==
  pc = "parsed" =>
    LET list == Split(text, ",")
    IN  \A i \in 1..Len(list) :
          MixedGroup(list[i]) =>
            parsed = ChannelManipulation_fromString(Join(RemoveAt(list, i), ","))

\* C11 (amended): such a group is kept with only its known sources: unless a
\* later usable group names the same destination, the destination gets the
\* known sources of the group, in their order.
C11_MixedGroupKeepsKnownSources ==
  pc = "parsed" =>
    LET list == Split(text, ",")
    IN  \A i \in 1..Len(list) :
          (/\ MixedGroup(list[i])
           /\ \A j \in (i + 1)..Len(list) :
                BadGroup(list[j]) \/ GroupDest(list[j]) # GroupDest(list[i]))
          => parsed[GroupDest(list[i])] = KnownSourceIds(list[i])

\* "FC!FR/XX" yields FC <- [FR]
C11_Witness ==
  /\ pc = "parsed"
  /\ text = <<"F","C","!","F","R","/","X","X">>
  /\ parsed = set(EmptyMan, FrontCenter, <<FrontRight>>)

(***************************************************************************)
(* Further properties of default_().                                       *)
(***************************************************************************)
\* C12: with BackCenter in S, BackCenter not in D and D # Mono, BackCenter
\* feeds exactly {BackLeft, BackRight} if both are in D, otherwise exactly
\* {SideLeft, SideRight} if both are in D, otherwise exactly
\* {FrontLeft, FrontRight}.
C12_BackCenterFallback ==
  (/\ DefaultDone
   /\ BackCenter \in srcLayout
   /\ BackCenter \notin dstLayout
   /\ dstLayout # Mono)
  => DestsOf(BackCenter) =
       IF {BackLeft, BackRight} \subseteq dstLayout
       THEN {BackLeft, BackRight}
       ELSE IF {SideLeft, SideRight} \subseteq dstLayout
       THEN {SideLeft, SideRight}
       ELSE {FrontLeft, FrontRight}

C12_Witness ==
  /\ DefaultDone
  /\ BackCenter \in srcLayout
  /\ BackCenter \notin dstLayout
  /\ ~({BackLeft, BackRight} \subseteq dstLayout)
  /\ {SideLeft, SideRight} \subseteq dstLayout
  /\ DestsOf(BackCenter) = {SideLeft, SideRight}

\* the number of times speaker s is listed in the source list seq
Count(seq, s) == Cardinality({k \in 1..Len(seq) : seq[k] = s})

\* C15: in default_()(S, D) every destination with a non-empty source list
\* is a speaker of D, and every listed source is a speaker of S, listed at
\* most once per destination.
C15_ContributionsInsideLayouts ==
  \A d \in Slots :
    mix[d] # <<>> =>
      /\ d \in dstLayout
      /\ \A s \in Range(mix[d]) : s \in srcLayout /\ Count(mix[d], s) = 1

\* a 7.1-to-3.0 style downmix: LowFrequency went through the fallback and
\* FrontLeft carries several sources
C15_Witness ==
  /\ DefaultDone
  /\ dstLayout # Mono
  /\ LowFrequency \in srcLayout \ dstLayout
  /\ Len(mix[FrontLeft]) >= 3
  /\ \A d \in Slots : mix[d] # <<>> => d \in dstLayout

(***************************************************************************)
(* The canonical text of a ChannelManipulation.                            *)
(***************************************************************************)
\* the ids named by a '/'-separated list, NONE for an unknown or empty name
NamedIds(field) ==
  [k \in 1..Len(Split(field, "/")) |-> nameToId(Split(field, "/")[k])]

\* group is DEST!SRC/SRC/...: exactly one '!', a known destination and a
\* non-empty list of known sources, nothing else
CanonicalGroup(group) ==
  /\ Len(Split(group, "!")) = 2
  /\ KnownName(Split(group, "!")[1])
  /\ \A k \in 1..Len(NamedIds(Split(group, "!")[2])) :
       NamedIds(Split(group, "!")[2])[k] # MP_SPEAKER_ID_NONE

\* text is a ','-joined list of canonical groups whose destinations are
\* distinct and ascending
CanonicalText(t) ==
  LET list == Split(t, ",")
  IN  /\ \A i \in 1..Len(list) : CanonicalGroup(list[i])
      /\ \A i \in 1..(Len(list) - 1) :
           nameToId(Split(list[i], "!")[1]) < nameToId(Split(list[i + 1], "!")[1])

\* text lists exactly the non-empty destinations FL..SR of m_mix, each with
\* its sources in stored order
TextOf(t, m_mix) ==
  LET list == Split(t, ",")
      dests == {d \in Speakers : m_mix[d] # <<>>}
  IN  IF dests = {} THEN t = <<>>
      ELSE /\ CanonicalText(t)
           /\ Len(list) = Cardinality(dests)
           /\ \A i \in 1..Len(list) :
                LET d == nameToId(Split(list[i], "!")[1])
                IN  d \in dests /\ NamedIds(Split(list[i], "!")[2]) = m_mix[d]

\* C13: toString emits one group per destination FL..SR with a non-empty
\* source list, in ascending destination order, sources in stored order; and
\* for every text t of that form fromString(t).toString() = t.
C13_CanonicalTextFixedPoint ==
  /\ (pc = "text" /\ text = ChannelManipulation_toString(man)) => TextOf(text, man)
  /\ (pc = "parsed" /\ CanonicalText(text))
       => ChannelManipulation_toString(parsed) = text

\* fromString("FC!FL/FR").toString() = "FC!FL/FR"
C13_Witness ==
  /\ pc = "parsed"
  /\ text = <<"F","C","!","F","L","/","F","R">>
  /\ CanonicalText(text)
  /\ parsed = set(EmptyMan, FrontCenter, <<FrontLeft, FrontRight>>)
  /\ ChannelManipulation_toString(parsed) = text

(***************************************************************************)
(* Properties of operator()(mp_chmap, mp_chmap).                           *)
(***************************************************************************)
\* the speakers of a raw array, whatever their order and repetition, a raw
\* id without catalog entry standing for FrontLeft
SpeakersOfRaw(chmap) ==
  {IF mp \in Speakers THEN mp ELSE FrontLeft : mp \in Range(chmap)}

\* C14: operator()(mp_chmap src, mp_chmap dest) returns the entry of the
\* layout pair made of the speakers of each raw array, an unknown raw id
\* counting as FrontLeft; the entry exists after the call, and the pair
\* depends on neither order nor repetition of the raw speakers.
C14_ResolveDegradesToFrontLeft ==
  pc = "resolved" =>
    /\ resolved = <<LayoutFromValue(SpeakersOfRaw(chSrc)),
                    LayoutFromValue(SpeakersOfRaw(chDest))>>
    /\ resolved \in DOMAIN m_map

\* <<unknown, FR>> resolves to 2.0 and <<FC, FC>> to Mono
C14_Witness ==
  /\ pc = "resolved"
  /\ chSrc = <<MP_SPEAKER_ID_SR + 1, FrontRight>>
  /\ chDest = <<FrontCenter, FrontCenter>>
  /\ resolved = <<Stereo, Mono>>
  /\ resolved \in DOMAIN m_map

====
